---- MODULE Spec2Model ----
(***************************************************************************)
(* Incident Investigation & Deduplication Engine                           *)
(* (app/ops/service.py, OpsInvestigationService).                          *)
(*                                                                         *)
(* Strings are sequences of one-character strings.  Time is counted in     *)
(* ticks, TicksPerSecond ticks to the second, so that a datetime carries   *)
(* a sub-second part the way Python's datetime carries microseconds.       *)
(***************************************************************************)
EXTENDS Integers, Sequences, FiniteSets, TLC

(***************************************************************************)
(* Characters                                                              *)
(***************************************************************************)
LowerLetters ==
    {"a","b","c","d","e","f","g","h","i","j","k","l","m",
     "n","o","p","q","r","s","t","u","v","w","x","y","z"}

Digits == {"0","1","2","3","4","5","6","7","8","9"}

\* Characters matched by \s and removed by str.strip().
Whitespace == {" ", "\t", "\n", "\r"}

\* The character class [a-z0-9 .,:;!?()/_-] of _sanitize_reason_for_storage.
AllowedChars ==
    LowerLetters \cup Digits \cup {" ", ".", ",", ":", ";", "!", "?", "(", ")", "/", "_", "-"}

\* str.lower() on one character.
LowerChar(c) ==
    CASE c = "A" -> "a" [] c = "B" -> "b" [] c = "C" -> "c" [] c = "D" -> "d"
      [] c = "E" -> "e" [] c = "F" -> "f" [] c = "G" -> "g" [] c = "H" -> "h"
      [] c = "I" -> "i" [] c = "J" -> "j" [] c = "K" -> "k" [] c = "L" -> "l"
      [] c = "M" -> "m" [] c = "N" -> "n" [] c = "O" -> "o" [] c = "P" -> "p"
      [] c = "Q" -> "q" [] c = "R" -> "r" [] c = "S" -> "s" [] c = "T" -> "t"
      [] c = "U" -> "u" [] c = "V" -> "v" [] c = "W" -> "w" [] c = "X" -> "x"
      [] c = "Y" -> "y" [] c = "Z" -> "z" [] OTHER -> c

(***************************************************************************)
(* String helpers used by the reason normalizer                            *)
(***************************************************************************)
\* reason.replace("\r", " ").replace("\n", " ")
ReplaceNewlines(s) ==
    [i \in 1..Len(s) |-> IF s[i] \in {"\r", "\n"} THEN " " ELSE s[i]]

\* str.strip(): drop leading and trailing whitespace.
Strip(s) ==
    LET keep == {i \in 1..Len(s) : s[i] \notin Whitespace}
    IN  IF keep = {} THEN <<>>
        ELSE LET lo == CHOOSE i \in keep : \A j \in keep : i <= j
                 hi == CHOOSE i \in keep : \A j \in keep : i >= j
             IN  SubSeq(s, lo, hi)

\* str.lower()
Lower(s) == [i \in 1..Len(s) |-> LowerChar(s[i])]

\* re.sub(<class>+, " ", s): every maximal run of characters of the class
\* becomes one space.
RECURSIVE SubRunsIn(_, _, _, _)
SubRunsIn(s, class, lo, hi) ==
    IF lo > hi THEN <<>>
    ELSE IF lo = hi
         THEN IF s[lo] \notin class THEN <<s[lo]>>
              ELSE IF lo > 1 /\ s[lo - 1] \in class THEN <<>>
              ELSE <<" ">>
         ELSE LET mid == (lo + hi) \div 2
              IN  SubRunsIn(s, class, lo, mid) \o SubRunsIn(s, class, mid + 1, hi)

SubRuns(s, class) == SubRunsIn(s, class, 1, Len(s))

\* re.sub(r"\s+", " ", text)
CollapseWhitespace(s) == SubRuns(s, Whitespace)

\* re.sub(r"[^a-z0-9 .,:;!?()/_-]+", " ", text)
ReplaceDisallowed(s) ==
    LET bad == {s[i] : i \in 1..Len(s)} \ AllowedChars
    IN  SubRuns(s, bad)

\* The cap on a reason's length, in characters.
ReasonCap == 80

\* text[:80]
Cap(s) == IF Len(s) > ReasonCap THEN SubSeq(s, 1, ReasonCap) ELSE s

\* _normalize_reason_for_key
normalize_reason_for_key(reason) ==
    Cap(CollapseWhitespace(Lower(Strip(ReplaceNewlines(reason)))))

\* _sanitize_reason_for_storage
sanitize_reason_for_storage(reason) ==
    Cap(Strip(CollapseWhitespace(ReplaceDisallowed(normalize_reason_for_key(reason)))))

\* True when t occurs in s as a contiguous substring (Python's `t in s`).
Contains(s, t) ==
    \E i \in 1..(Len(s) - Len(t) + 1) : SubSeq(s, i, i + Len(t) - 1) = t

(***************************************************************************)
(* Time                                                                    *)
(***************************************************************************)
\* The sub-second positions a datetime can take in the model.
SubSecond == {0, 1}
TicksPerSecond == Cardinality(SubSecond)

\* Python's int(x) on a quotient: truncation toward zero.
TruncDiv(a, b) == IF a >= 0 THEN a \div b ELSE -((-a) \div b)

\* int(dt.timestamp()) for a datetime at or after the epoch.
EpochSeconds(t) == t \div TicksPerSecond

\* An ISO-8601 text is modelled by what it parses to: a time in ticks, or
\* nothing (missing, empty or unparsable text).
BadIso == [valid |-> FALSE, ticks |-> 0]

\* _iso_utc: the datetime with its microseconds dropped, as text.
iso_utc(t) == [valid |-> TRUE, ticks |-> EpochSeconds(t) * TicksPerSecond]

\* _parse_iso_utc: the datetime, or None.
NoTime == [some |-> FALSE, t |-> 0]
parse_iso_utc(text) ==
    IF text.valid THEN [some |-> TRUE, t |-> text.ticks] ELSE NoTime

(***************************************************************************)
(* Optional values                                                         *)
(***************************************************************************)
\* Python's None for an integer-valued field.
NoneInt == [some |-> FALSE, v |-> 0]
SomeInt(n) == [some |-> TRUE, v |-> n]

\* Python's None for a URL-valued field; a URL is a tuple <<"url", n>>.
NoneUrl == <<>>

\* The empty incident id "" (falsy); external incident ids are 1, 2, ...
NoIncidentId == 0

(***************************************************************************)
(* MetricsCollector                                                        *)
(***************************************************************************)
MetricIds ==
    {"lambda_invocations", "lambda_errors", "lambda_throttles", "lambda_duration_p95",
     "api_count", "api_4xx", "api_5xx", "api_integration_latency_p95"}

RECURSIVE SumSeq(_)
SumSeq(values) ==
    IF values = <<>> THEN 0 ELSE Head(values) + SumSeq(Tail(values))

\* _sum_metric: the sum of the series' values, 0 for a missing series.
sum_metric(metric_map, id) ==
    IF id \notin DOMAIN metric_map THEN 0 ELSE SumSeq(metric_map[id])

\* _p95_metric: the maximum of the series' values, None for a missing or
\* empty series.
p95_metric(metric_map, id) ==
    IF id \notin DOMAIN metric_map \/ metric_map[id] = <<>> THEN NoneInt
    ELSE LET vals == {metric_map[id][i] : i \in 1..Len(metric_map[id])}
         IN  SomeInt(CHOOSE m \in vals : \A x \in vals : x <= m)

\* The result dictionary _collect_metrics starts from.
ZeroMetrics ==
    [lambda |-> [invocations |-> 0, errors |-> 0, throttles |-> 0,
                 duration_p95_ms |-> NoneInt],
     api_gateway |-> [count |-> 0, c4xx |-> 0, c5xx |-> 0,
                      integration_latency_p95_ms |-> NoneInt]]

\* _collect_metrics giving 0 instead of None for the percentiles of a
\* failed query.
collect_metrics_zero_percentiles(response) ==
    IF ~response.ok
    THEN [lambda |-> [ZeroMetrics.lambda EXCEPT !.duration_p95_ms = SomeInt(0)],
          api_gateway |-> [ZeroMetrics.api_gateway EXCEPT
                             !.integration_latency_p95_ms = SomeInt(0)]]
    ELSE LET mm == response.results
         IN  [lambda |-> [invocations |-> sum_metric(mm, "lambda_invocations"),
                          errors |-> sum_metric(mm, "lambda_errors"),
                          throttles |-> sum_metric(mm, "lambda_throttles"),
                          duration_p95_ms |-> p95_metric(mm, "lambda_duration_p95")],
              api_gateway |-> [count |-> sum_metric(mm, "api_count"),
                               c4xx |-> sum_metric(mm, "api_4xx"),
                               c5xx |-> sum_metric(mm, "api_5xx"),
                               integration_latency_p95_ms |->
                                   p95_metric(mm, "api_integration_latency_p95")]]

\* _collect_metrics: response.ok = FALSE is get_metric_data raising.
collect_metrics(response) ==
    IF ~response.ok THEN ZeroMetrics
    ELSE LET mm == response.results
         IN  [lambda |-> [invocations |-> sum_metric(mm, "lambda_invocations"),
                          errors |-> sum_metric(mm, "lambda_errors"),
                          throttles |-> sum_metric(mm, "lambda_throttles"),
                          duration_p95_ms |-> p95_metric(mm, "lambda_duration_p95")],
              api_gateway |-> [count |-> sum_metric(mm, "api_count"),
                               c4xx |-> sum_metric(mm, "api_4xx"),
                               c5xx |-> sum_metric(mm, "api_5xx"),
                               integration_latency_p95_ms |->
                                   p95_metric(mm, "api_integration_latency_p95")]]

(***************************************************************************)
(* LogSignalCollector                                                      *)
(***************************************************************************)
\* A log event's message: json is "object" (a JSON object), "nonobject"
\* (valid JSON of another type) or "invalid" (not JSON).  A missing string
\* field is the empty string; a missing token count is None.
LogEvent(json, event, error_code, request_id, prompt, output, total) ==
    [json |-> json, event |-> event, error_code |-> error_code,
     request_id |-> request_id, llm_prompt_tokens |-> prompt,
     llm_output_tokens |-> output, llm_total_tokens |-> total]

\* The most correlation ids kept as samples.
MaxSampleRequestIds == 10

\* The accumulators of _collect_logs before any event is scanned.
EmptyLogAcc ==
    [error_code_counts |-> <<>>, sample_request_ids |-> <<>>,
     failed_events |-> 0, events_scanned |-> 0, usage_samples |-> 0,
     token_prompt_sum |-> 0, token_output_sum |-> 0, token_total_sum |-> 0]

\* Counter[code] += 1, the counter kept as a sequence of [code, count] in
\* first-seen order (the order of a Python dict).
CountCode(counts, code) ==
    IF \E i \in 1..Len(counts) : counts[i].code = code
    THEN [i \in 1..Len(counts) |->
            IF counts[i].code = code
            THEN [code |-> code, count |-> counts[i].count + 1]
            ELSE counts[i]]
    ELSE Append(counts, [code |-> code, count |-> 1])

SeqMembers(s) == {s[i] : i \in 1..Len(s)}

OrZero(opt) == IF opt.some THEN opt.v ELSE 0

\* One iteration of the loop over events in _collect_logs.
ScanEvent(acc, ev) ==
    LET scanned == [acc EXCEPT !.events_scanned = @ + 1]
    IN  IF ev.json # "object" THEN scanned
        ELSE LET a1 == IF ev.error_code # <<>>
                       THEN [scanned EXCEPT !.error_code_counts = CountCode(@, ev.error_code)]
                       ELSE scanned
                 a2 == IF ev.event = "request.failed"
                       THEN [a1 EXCEPT !.failed_events = @ + 1]
                       ELSE a1
                 a3 == IF /\ ev.request_id # <<>>
                          /\ ev.request_id \notin SeqMembers(a2.sample_request_ids)
                          /\ Len(a2.sample_request_ids) < MaxSampleRequestIds
                       THEN [a2 EXCEPT !.sample_request_ids = Append(@, ev.request_id)]
                       ELSE a2
             IN  IF /\ ~ev.llm_total_tokens.some
                    /\ ~ev.llm_prompt_tokens.some
                    /\ ~ev.llm_output_tokens.some
                 THEN a3
                 ELSE [a3 EXCEPT !.usage_samples = @ + 1,
                                 !.token_prompt_sum = @ + OrZero(ev.llm_prompt_tokens),
                                 !.token_output_sum = @ + OrZero(ev.llm_output_tokens),
                                 !.token_total_sum = @ + OrZero(ev.llm_total_tokens)]

RECURSIVE ScanEvents(_, _)
ScanEvents(acc, events) ==
    IF events = <<>> THEN acc
    ELSE ScanEvents(ScanEvent(acc, Head(events)), Tail(events))

\* int(round(a / b)) for a >= 0, b > 0: Python rounds halves to even.
RoundDiv(a, b) ==
    LET q == a \div b
        r == a % b
    IN  IF 2 * r < b THEN q
        ELSE IF 2 * r > b THEN q + 1
        ELSE IF q % 2 = 0 THEN q ELSE q + 1

\* _collect_logs: response.ok = FALSE is filter_log_events raising.
collect_logs(response) ==
    LET acc == IF response.ok THEN ScanEvents(EmptyLogAcc, response.events)
               ELSE EmptyLogAcc
    IN  [error_code_counts |-> acc.error_code_counts,
         sample_request_ids |-> acc.sample_request_ids,
         failed_events |-> acc.failed_events,
         events_scanned |-> acc.events_scanned,
         token_counts |->
            [samples |-> acc.usage_samples,
             llm_prompt_tokens_sum |-> acc.token_prompt_sum,
             llm_output_tokens_sum |-> acc.token_output_sum,
             llm_total_tokens_sum |-> acc.token_total_sum,
             llm_total_tokens_avg |->
                IF acc.usage_samples > 0
                THEN RoundDiv(acc.token_total_sum, acc.usage_samples)
                ELSE 0]]

(***************************************************************************)
(* Summary                                                                 *)
(***************************************************************************)
\* The characters of the model in code-point order (Python compares
\* strings by code point).
CodePoints ==
    <<"\t", "\n", "\r", " ", "!", "#", "$", "(", ")", ",", "-", ".", "/",
      "0", "1", "2", "3", "4", "5", "6", "7", "8", "9", ":", ";", "=", "?",
      "A", "B", "C", "D", "E", "F", "G", "H", "I", "J", "K", "L", "M",
      "N", "O", "P", "Q", "R", "S", "T", "U", "V", "W", "X", "Y", "Z", "_",
      "a", "b", "c", "d", "e", "f", "g", "h", "i", "j", "k", "l", "m",
      "n", "o", "p", "q", "r", "s", "t", "u", "v", "w", "x", "y", "z">>

Ord(c) == CHOOSE i \in 1..Len(CodePoints) : CodePoints[i] = c

\* a < b for Python strings.
RECURSIVE StrLess(_, _)
StrLess(a, b) ==
    IF b = <<>> THEN FALSE
    ELSE IF a = <<>> THEN TRUE
    ELSE IF Head(a) = Head(b) THEN StrLess(Tail(a), Tail(b))
    ELSE Ord(Head(a)) < Ord(Head(b))

\* The sort key (-count, code) of _build_summary.
ItemBefore(x, y) ==
    \/ x.count > y.count
    \/ x.count = y.count /\ StrLess(x.code, y.code)

RECURSIVE SortItems(_)
SortItems(items) ==
    IF items = {} THEN <<>>
    ELSE LET first == CHOOSE x \in items : \A y \in items \ {x} : ItemBefore(x, y)
         IN  <<first>> \o SortItems(items \ {first})

\* The number of error codes kept in a summary.
TopErrorCodes == 5

\* _build_summary
build_summary(metrics, logs) ==
    LET sorted == SortItems(SeqMembers(logs.error_code_counts))
    IN  [counts |->
            [lambda_invocations |-> metrics.lambda.invocations,
             lambda_errors |-> metrics.lambda.errors,
             lambda_throttles |-> metrics.lambda.throttles,
             api_count |-> metrics.api_gateway.count,
             api_4xx |-> metrics.api_gateway.c4xx,
             api_5xx |-> metrics.api_gateway.c5xx,
             failed_events |-> logs.failed_events,
             log_events_scanned |-> logs.events_scanned,
             llm_usage_samples |-> logs.token_counts.samples],
         p95_timings_ms |->
            [lambda_duration |-> metrics.lambda.duration_p95_ms,
             api_integration_latency |-> metrics.api_gateway.integration_latency_p95_ms],
         top_error_codes |->
            IF Len(sorted) > TopErrorCodes THEN SubSeq(sorted, 1, TopErrorCodes) ELSE sorted,
         sample_request_ids |-> logs.sample_request_ids]

\* _build_markdown: the values the Markdown report prints, in its order.
build_markdown(report) ==
    [incident_key |-> report.incident_key,
     stage |-> report.stage,
     window_minutes |-> report.window_minutes,
     generated_at |-> report.generated_at,
     statuspage_posted |-> report.statuspage.posted,
     summary_counts |->
        <<report.summary.counts.lambda_invocations,
          report.summary.counts.lambda_errors,
          report.summary.counts.lambda_throttles,
          report.summary.counts.api_count,
          report.summary.counts.api_4xx,
          report.summary.counts.api_5xx,
          report.summary.counts.failed_events,
          report.summary.counts.llm_usage_samples>>,
     p95_timings_ms |->
        <<report.summary.p95_timings_ms.lambda_duration,
          report.summary.p95_timings_ms.api_integration_latency>>,
     top_error_codes |-> report.summary.top_error_codes]

(***************************************************************************)
(* Incident key, object keys                                               *)
(***************************************************************************)
\* _build_incident_key with the time bucket left out of the material.
build_incident_key_without_bucket(stage, window_minutes, reason_norm, now, bucket_seconds) ==
    <<stage, window_minutes, 0, reason_norm>>

\* _build_incident_key.  The digest is taken as injective on its input
\* material, so the key is the material itself.
build_incident_key(stage, window_minutes, reason_norm, now, bucket_seconds) ==
    LET bucket == EpochSeconds(now) \div bucket_seconds
    IN  <<stage, window_minutes, bucket, reason_norm>>

\* _index_key
index_key(incident_key) == <<"index", incident_key>>

\* _report_prefix
report_prefix_of(incident_key, run_id) == <<incident_key, run_id>>

\* report.md put under one fixed run id of the incident instead of the run's own.
ReportMdKey_outside_run(prefix) == <<"report.md", <<prefix[1], <<-1, 0>>>>>>

\* f"{report_prefix}report.json" and f"{report_prefix}report.md"
ReportJsonKey(prefix) == <<"report.json", prefix>>
ReportMdKey(prefix) == <<"report.md", prefix>>

\* _write_reports with the Markdown report put a second time.
WriteReportsKeys_md_twice(prefix) ==
    <<ReportJsonKey(prefix), ReportMdKey(prefix), ReportMdKey(prefix)>>

\* _write_reports: the keys it puts, in order.
WriteReportsKeys(prefix) == <<ReportJsonKey(prefix), ReportMdKey(prefix)>>

\* _build_run_id: the time to the second and the first four hex digits of
\* a random UUID.
build_run_id(now, suffix) == <<EpochSeconds(now), suffix>>

(***************************************************************************)
(* Index records and the object store                                      *)
(***************************************************************************)
\* The "statuspage" sub-object of an index record.  A missing incident_id
\* is NoIncidentId, a missing incident_url is NoneUrl, a missing last_state
\* is "", a missing or null last_update_at is BadIso.
EmptyStatus ==
    [incident_id |-> NoIncidentId, incident_url |-> NoneUrl,
     last_state |-> "", last_update_at |-> BadIso]

\* The JSON object {}: every field missing.
EmptyObject ==
    [empty |-> TRUE, incident_key |-> <<>>, stage |-> "", window_minutes |-> 0,
     reason |-> <<>>, updated_at |-> BadIso, ttl_seconds |-> 0,
     latest_report_prefix |-> <<>>, summary |-> <<>>, statuspage |-> EmptyStatus]

\* What _read_s3_json returns: a dict (its fields) or None.
NoneData == [dict |-> FALSE, fields |-> EmptyObject]
DictData(fields) == [dict |-> TRUE, fields |-> fields]

\* The body of a stored object: fmt is "object" (a JSON object, whose fields
\* are given), "nonobject" (valid JSON of another type) or "invalid" (bytes
\* that are not JSON).
JsonBody(fields) == [fmt |-> "object", fields |-> fields]
InvalidBody == [fmt |-> "invalid", fields |-> EmptyObject]
NonObjectBody == [fmt |-> "nonobject", fields |-> EmptyObject]

\* _read_s3_json: get_object raising (a missing key, an I/O error, no
\* bucket configured), bytes that are not JSON and JSON that is not an
\* object all give None.
read_s3_json(s3, key, storage_configured, get_fails) ==
    IF ~storage_configured \/ get_fails \/ key \notin DOMAIN s3 THEN NoneData
    ELSE IF s3[key].fmt = "object" THEN DictData(s3[key].fields)
    ELSE NoneData

\* put_object refusing to replace an object that exists.
PutObject_if_absent(s3, key, body) ==
    [k \in DOMAIN s3 \cup {key} |-> IF k \in DOMAIN s3 THEN s3[k] ELSE body]

\* The store after a successful put_object.
PutObject(s3, key, body) ==
    [k \in DOMAIN s3 \cup {key} |-> IF k = key THEN body ELSE s3[k]]

\* `if index_data`: None and the empty dict are falsy.
Truthy(index_data) == index_data.dict /\ ~index_data.fields.empty

\* _is_dedupe_hit with a record of age zero taken as not yet a hit.
is_dedupe_hit_positive_age(index_data, now, ttl_seconds) ==
    LET updated_at == parse_iso_utc(index_data.fields.updated_at)
    IN  IF ~updated_at.some THEN FALSE
        ELSE LET age_seconds == TruncDiv(now - updated_at.t, TicksPerSecond)
             IN  age_seconds > 0 /\ age_seconds < ttl_seconds

\* _is_dedupe_hit
is_dedupe_hit(index_data, now, ttl_seconds) ==
    LET updated_at == parse_iso_utc(index_data.fields.updated_at)
    IN  IF ~updated_at.some THEN FALSE
        ELSE LET age_seconds == TruncDiv(now - updated_at.t, TicksPerSecond)
             IN  age_seconds >= 0 /\ age_seconds < ttl_seconds

\* _index_status that forgets the record.
index_status_forgetful(index_data) == EmptyStatus

\* _index_status: a copy of the record's statuspage object, {} for None.
index_status(index_data) ==
    IF index_data.dict THEN index_data.fields.statuspage ELSE EmptyStatus

\* _should_post_dedupe_update with the interval compared strictly.
should_post_dedupe_update_strictly_later(index_data, now, min_seconds) ==
    LET last_update == parse_iso_utc(index_status(index_data).last_update_at)
    IN  IF ~last_update.some THEN TRUE
        ELSE TruncDiv(now - last_update.t, TicksPerSecond) > min_seconds

\* _should_post_dedupe_update
should_post_dedupe_update(index_data, now, min_seconds) ==
    LET last_update == parse_iso_utc(index_status(index_data).last_update_at)
    IN  IF ~last_update.some THEN TRUE
        ELSE TruncDiv(now - last_update.t, TicksPerSecond) >= min_seconds

\* _index_statuspage_url: the recorded URL if it is a non-empty string.
index_statuspage_url(index_data) == index_status(index_data).incident_url

(***************************************************************************)
(* InvestigationOrchestrator                                               *)
(*                                                                         *)
(* cfg is the configuration read from the environment, input the call's   *)
(* arguments, env what the collaborators do during the call:               *)
(*   get_fails  - get_object raises                                        *)
(*   put_fault  - the put that raises: "none", "json", "md" or "index"     *)
(*   notify_ok  - the status page call succeeds                            *)
(*   created    - what create_investigating_incident returns on success    *)
(*   metrics, logs - the responses of the metrics and the log backend      *)
(*   suffix     - the random part of the run id                            *)
(***************************************************************************)
SecondsPerMinute == 60

\* None for a text-valued field (statuspage_error).
NoneText == ""

NotifyErrorText == "Status page notification failed."

\* The value of a call that raised instead of returning.
NoResult == [returned |-> FALSE]

\* now - timedelta(minutes=window_minutes)
WindowStart(now, window_minutes) ==
    now - window_minutes * SecondsPerMinute * TicksPerSecond

\* The except clauses with the strict flag ignored: every caught failure is
\* raised.
NotifyRaises_always(cfg, caught) == caught

\* `if statuspage_strict: raise OpsNotifyFailedError(...)` in the except
\* clauses: whether a caught failure is raised to the caller.
NotifyRaises(cfg, caught) == caught /\ cfg.statuspage_strict

\* The condition of line 126 without its `not force`.
TakesDedupePath_ignoring_force(index_data, force, now, ttl_seconds) ==
    /\ Truthy(index_data)
    /\ is_dedupe_hit(index_data, now, ttl_seconds)

\* The condition of line 126 that selects the dedupe-hit branch.
TakesDedupePath(index_data, force, now, ttl_seconds) ==
    /\ Truthy(index_data)
    /\ ~force
    /\ is_dedupe_hit(index_data, now, ttl_seconds)

\* Lines 126-163: the dedupe-hit branch of investigate.
\* The call a collaborator receives, by the notifier operation or the key
\* of the put.
NotifierEvent(notifier_call) ==
    IF notifier_call = "create" THEN "create_incident" ELSE "post_update"

PutEvent(key) ==
    CASE key[1] = "report.json" -> "put_report_json"
      [] key[1] = "report.md" -> "put_report_md"
      [] OTHER -> "put_index"

PutEvents(puts) == [i \in 1..Len(puts) |-> PutEvent(puts[i])]

\* The fresh branch with the notifier called after the writes.
FreshEvents_notify_last(log_group, notifier_call, puts) ==
    <<"metrics_query">>
        \o (IF log_group THEN <<"log_query">> ELSE <<>>)
        \o PutEvents(puts)
        \o <<NotifierEvent(notifier_call)>>

\* Lines 165-239 in statement order: the calls the fresh branch makes to its
\* collaborators.
FreshEvents(log_group, notifier_call, puts) ==
    <<"metrics_query">>
        \o (IF log_group THEN <<"log_query">> ELSE <<>>)
        \o <<NotifierEvent(notifier_call)>>
        \o PutEvents(puts)

\* Lines 137-142 in statement order: the calls the dedupe branch makes.
DedupeEvents(attempt, puts) ==
    (IF attempt THEN <<NotifierEvent("update")>> ELSE <<>>) \o PutEvents(puts)

\* The dedupe branch writing the record back with a fresh updated_at.
dedupe_index_update_extending_ttl(index_data, now) ==
    [index_data.fields EXCEPT
        !.updated_at = iso_utc(now),
        !.statuspage = [index_status(index_data) EXCEPT
                           !.last_update_at = iso_utc(now),
                           !.last_state = "investigating"]]

\* Lines 138-142: the record the dedupe branch writes back after a posted
\* update, the record it read with its statuspage object replaced.
dedupe_index_update(index_data, now) ==
    [index_data.fields EXCEPT
        !.statuspage = [index_status(index_data) EXCEPT
                           !.last_update_at = iso_utc(now),
                           !.last_state = "investigating"]]

DedupePath(s3, cfg, now, incident_key, index_data, env) ==
    LET status_url == index_statuspage_url(index_data)
        status == index_status(index_data)
        incident_id == status.incident_id
        attempt ==
            /\ incident_id # NoIncidentId
            /\ should_post_dedupe_update(index_data, now, cfg.status_update_min_seconds)
        posted == attempt /\ env.notify_ok
        new_fields == dedupe_index_update(index_data, now)
        put_called == posted /\ cfg.storage_configured
        put_ok == put_called /\ env.put_fault # "index"
        \* The except clause covers the notifier call and the index write.
        caught == attempt /\ ~put_ok
        latest_prefix == index_data.fields.latest_report_prefix
    IN  [s3 |-> IF put_ok THEN PutObject(s3, index_key(incident_key), JsonBody(new_fields))
                ELSE s3,
         path |-> "dedupe",
         raised |-> IF NotifyRaises(cfg, caught) THEN "OpsNotifyFailedError" ELSE "none",
         result |->
            IF NotifyRaises(cfg, caught) THEN NoResult
            ELSE [returned |-> TRUE,
                  incident_id |-> incident_key,
                  incident_key |-> incident_key,
                  deduped |-> TRUE,
                  summary |-> index_data.fields.summary,
                  statuspage_incident_url |-> status_url,
                  report_s3_key |->
                      IF latest_prefix # <<>> THEN ReportJsonKey(latest_prefix) ELSE <<>>,
                  statuspage_posted |-> posted,
                  statuspage_error |-> IF caught THEN NotifyErrorText ELSE NoneText],
         metrics_calls |-> 0,
         log_calls |-> 0,
         notifier_call |-> IF attempt THEN "update" ELSE "none",
         notifier_target |-> IF attempt THEN incident_id ELSE NoIncidentId,
         notifier_ok |-> posted,
         puts |-> IF put_called THEN <<index_key(incident_key)>> ELSE <<>>,
         puts_ok |-> IF put_ok THEN 1 ELSE 0]

\* The fresh branch going on to _write_reports after the strict-mode raise.
ReachesWrites_despite_raise(notify_raises) == TRUE

\* Lines 191-221: the raise in the except clause leaves investigate before
\* _write_reports is called.
ReachesWrites(notify_raises) == ~notify_raises

\* Lines 165-250: the fresh branch of investigate.
FreshPath(s3, cfg, now, input, reason_safe, incident_key, index_data, env) ==
    LET metrics == collect_metrics(env.metrics)
        logs == collect_logs(IF cfg.log_group THEN env.logs ELSE [ok |-> FALSE])
        summary == build_summary(metrics, logs)
        run_id == build_run_id(now, env.suffix)
        report_prefix == report_prefix_of(incident_key, run_id)
        report_json_key == ReportJsonKey(report_prefix)
        status == index_status(index_data)
        is_update == status.incident_id # NoIncidentId
        status2 ==
            IF ~env.notify_ok THEN status
            ELSE IF is_update
                 THEN [status EXCEPT !.last_state = "investigating",
                                     !.last_update_at = iso_utc(now)]
                 ELSE [status EXCEPT !.incident_id = env.created.incident_id,
                                     !.incident_url = env.created.incident_url,
                                     !.last_state = "investigating",
                                     !.last_update_at = iso_utc(now)]
        status_url == status2.incident_url
        status_posted == env.notify_ok
        status_error == IF env.notify_ok THEN NoneText ELSE NotifyErrorText
        notify_raises == NotifyRaises(cfg, ~env.notify_ok)
        report ==
            [incident_id |-> incident_key,
             incident_key |-> incident_key,
             request_id |-> input.request_id,
             stage |-> input.stage,
             window_minutes |-> input.window_minutes,
             deduped |-> FALSE,
             generated_at |-> iso_utc(now),
             window_start |-> iso_utc(WindowStart(now, input.window_minutes)),
             window_end |-> iso_utc(now),
             reason |-> reason_safe,
             summary |-> summary,
             metrics |-> metrics,
             signals |-> [error_code_aggregation |-> logs.error_code_counts,
                          sample_request_ids |-> logs.sample_request_ids,
                          token_counts |-> logs.token_counts],
             statuspage |-> [posted |-> status_posted,
                             error |-> status_error,
                             incident_id |-> status2.incident_id,
                             incident_url |-> status_url]]
        next_index ==
            [empty |-> FALSE,
             incident_key |-> incident_key,
             stage |-> input.stage,
             window_minutes |-> input.window_minutes,
             reason |-> reason_safe,
             updated_at |-> iso_utc(now),
             ttl_seconds |-> cfg.ttl_seconds,
             latest_report_prefix |-> report_prefix,
             summary |-> summary,
             statuspage |->
                [incident_id |-> status2.incident_id,
                 incident_url |-> status_url,
                 last_state |-> IF status2.last_state = "" THEN "investigating"
                                ELSE status2.last_state,
                 last_update_at |-> status2.last_update_at]]
        \* _write_reports resolves the bucket before its first put.
        writing == ReachesWrites(notify_raises) /\ cfg.storage_configured
        json_ok == writing /\ env.put_fault # "json"
        md_ok == json_ok /\ env.put_fault # "md"
        index_put_ok == md_ok /\ env.put_fault # "index"
        s3_json == IF json_ok
                   THEN PutObject(s3, report_json_key, JsonBody(report)) ELSE s3
        s3_md == IF md_ok
                 THEN PutObject(s3_json, ReportMdKey(report_prefix),
                                JsonBody(build_markdown(report)))
                 ELSE s3_json
        s3_index == IF index_put_ok
                    THEN PutObject(s3_md, index_key(incident_key), JsonBody(next_index))
                    ELSE s3_md
        all_puts == WriteReportsKeys(report_prefix) \o <<index_key(incident_key)>>
        puts == IF ~writing THEN <<>>
                ELSE IF ~json_ok THEN SubSeq(all_puts, 1, 1)
                ELSE IF ~md_ok THEN SubSeq(all_puts, 1, 2)
                ELSE all_puts
        raised ==
            IF notify_raises THEN "OpsNotifyFailedError"
            ELSE IF ~cfg.storage_configured THEN "RuntimeError"
            ELSE IF ~index_put_ok THEN "StorageError"
            ELSE "none"
    IN  [s3 |-> s3_index,
         path |-> "fresh",
         raised |-> raised,
         result |->
            IF raised # "none" THEN NoResult
            ELSE [returned |-> TRUE,
                  incident_id |-> incident_key,
                  incident_key |-> incident_key,
                  deduped |-> FALSE,
                  summary |-> summary,
                  statuspage_incident_url |-> status_url,
                  report_s3_key |-> report_json_key,
                  statuspage_posted |-> status_posted,
                  statuspage_error |-> status_error],
         metrics_calls |-> 1,
         log_calls |-> IF cfg.log_group THEN 1 ELSE 0,
         notifier_call |-> IF is_update THEN "update" ELSE "create",
         notifier_target |-> status.incident_id,
         notifier_ok |-> env.notify_ok,
         puts |-> puts,
         puts_ok |-> IF index_put_ok THEN 3 ELSE IF md_ok THEN 2 ELSE IF json_ok THEN 1 ELSE 0]

\* The reasons callers give: "5xx KEY=sk-9x"
Reasons == {<<"5","x","x"," ","K","E","Y","=","s","k","-","9","x">>}

\* _normalize_reason_for_key and _sanitize_reason_for_storage of each reason,
\* computed once.
ReasonNorm == [r \in Reasons |-> normalize_reason_for_key(r)]
ReasonSafe == [r \in Reasons |-> sanitize_reason_for_storage(r)]

\* OpsInvestigationService.investigate
investigate(s3, cfg, now, input, env) ==
    LET reason_norm == ReasonNorm[input.reason]
        reason_safe == ReasonSafe[input.reason]
        incident_key == build_incident_key(input.stage, input.window_minutes,
                                           reason_norm, now, cfg.bucket_seconds)
        index_data == read_s3_json(s3, index_key(incident_key),
                                   cfg.storage_configured, env.get_fails)
        out == IF TakesDedupePath(index_data, input.force, now, cfg.ttl_seconds)
               THEN DedupePath(s3, cfg, now, incident_key, index_data, env)
               ELSE FreshPath(s3, cfg, now, input, reason_safe, incident_key,
                              index_data, env)
    IN  [out |-> out, incident_key |-> incident_key, index_data |-> index_data,
         gets |-> IF cfg.storage_configured THEN 1 ELSE 0]

\* Lines 124-239 in statement order: the calls one investigate call has made
\* to its collaborators, the index read first.
CallEvents(call) ==
    (IF call.gets = 1 THEN <<"get_index">> ELSE <<>>)
        \o (IF call.out.path = "fresh"
            THEN FreshEvents(call.out.log_calls = 1, call.out.notifier_call,
                             call.out.puts)
            ELSE DedupeEvents(call.out.notifier_call = "update", call.out.puts))

(***************************************************************************)
(* Bounds and input sets                                                   *)
(***************************************************************************)
\* The investigate calls of one run.
MaxCalls == 2

\* The clock stays within 0..MaxTicks.
MaxTicks == 8

\* How far, in ticks, the wall clock has moved between one call and the
\* next: datetime.now is not monotonic, so it may also have been set back.
ClockSteps == {-1, 0, 1, 2, 4}

\* (dedupe TTL, bucket size, status page minimum update interval), in
\* seconds: the defaults 300/300/600 scaled down, and a configuration whose
\* TTL is shorter than the bucket and whose update interval is shorter
\* than the TTL.
DefaultTimings ==
    [ttl_seconds |-> 2, bucket_seconds |-> 2, status_update_min_seconds |-> 4]
ShortTimings ==
    [ttl_seconds |-> 2, bucket_seconds |-> 3, status_update_min_seconds |-> 1]

Config(t, strict, lg, storage) ==
    [ttl_seconds |-> t.ttl_seconds,
     bucket_seconds |-> t.bucket_seconds,
     status_update_min_seconds |-> t.status_update_min_seconds,
     statuspage_strict |-> strict,
     log_group |-> lg,
     storage_configured |-> storage]

Configs ==
    {Config(t, strict, TRUE, TRUE) : t \in {DefaultTimings, ShortTimings}, strict \in BOOLEAN}
        \cup {Config(ShortTimings, FALSE, FALSE, TRUE),
              Config(DefaultTimings, FALSE, TRUE, FALSE)}

Stages == {"prod"}
Windows == {30}

\* "REQ-0001"
RequestIds == {<<"R","E","Q","-","0","0","0","1">>}

Inputs ==
    [window_minutes : Windows, reason : Reasons, stage : Stages,
     request_id : RequestIds, force : BOOLEAN]

MetricsSample ==
    [ok |-> TRUE,
     results |->
        [id \in MetricIds |->
            CASE id = "lambda_invocations" -> <<7, 5>>
              [] id = "lambda_errors" -> <<3>>
              [] id = "lambda_throttles" -> <<1>>
              [] id = "lambda_duration_p95" -> <<180, 245>>
              [] id = "api_count" -> <<20>>
              [] id = "api_4xx" -> <<5>>
              [] id = "api_5xx" -> <<2>>
              [] OTHER -> <<>>]]

\* get_metric_data, or filter_log_events, raising.
QueryFailure == [ok |-> FALSE]

MetricsResponses == {MetricsSample, QueryFailure}

\* Two structured events around a line that is not JSON.
LogSample ==
    [ok |-> TRUE,
     events |->
        <<LogEvent("object", "request.failed", <<"E","_","5","x","x">>,
                   <<"r","e","q","-","1">>, SomeInt(100), SomeInt(50), SomeInt(150)),
          LogEvent("invalid", "", <<>>, <<>>, NoneInt, NoneInt, NoneInt),
          LogEvent("object", "request.completed", <<>>,
                   <<"R","e","q","-","2">>, SomeInt(80), NoneInt, SomeInt(121))>>]

LogResponses == {LogSample, QueryFailure}

\* uuid4().hex[:4]: the random part of a run id matters only through its
\* being equal or not to the random parts already used for the same
\* incident key and second, so the draw is one of those or one new value.
UsedSuffixes(store, incident_key, now) ==
    {k[2][2][2] : k \in {r \in DOMAIN store :
                            /\ r[1] = "report.json"
                            /\ r[2][1] = incident_key
                            /\ r[2][2][1] = EpochSeconds(now)}}

RunSuffixes(store, incident_key, now) ==
    LET used == UsedSuffixes(store, incident_key, now)
    IN  used \cup {Cardinality(used)}

PutFaults == {"none", "json", "md", "index"}

\* What goes wrong during one call, if anything: the index read, one of the
\* three puts, the metrics query or the log query.
Faults ==
    {[get_fails |-> FALSE, put_fault |-> "none", metrics |-> m, logs |-> LogSample] :
        m \in MetricsResponses}
        \cup {[get_fails |-> FALSE, put_fault |-> "none",
                metrics |-> MetricsSample, logs |-> l] : l \in LogResponses}
        \cup {[get_fails |-> TRUE, put_fault |-> "none",
                metrics |-> MetricsSample, logs |-> LogSample]}
        \cup {[get_fails |-> FALSE, put_fault |-> p,
                metrics |-> MetricsSample, logs |-> LogSample] : p \in PutFaults}

NoFault ==
    [get_fails |-> FALSE, put_fault |-> "none",
     metrics |-> MetricsSample, logs |-> LogSample]

(***************************************************************************)
(* State                                                                   *)
(***************************************************************************)
VARIABLES
    cfg,        \* the configuration (environment variables)
    clock,      \* the wall clock at the latest call, in ticks
    s3,         \* the object store: key -> body
    incidents,  \* the external incidents the status page has opened
    faulted,    \* a storage or collector fault has happened (at most one
                \* in a run)
    calls,      \* the investigate calls made so far
    last,       \* the latest investigate call: arguments, reads, outcome
    probe,      \* two reasons and two times, and what the pure functions
                \* of the engine make of them
    running     \* the investigate calls in progress: for each thread of
                \* the service its position and its local variables

vars == <<cfg, clock, s3, incidents, faulted, calls, last, probe, running>>

NoCall == [called |-> FALSE]

NoProbe == [applied |-> FALSE]

\* The threads of the service, and a thread that is in no call.
Procs == {1, 2}
Idle == [pc |-> "idle"]
NoneRunning == [p \in Procs |-> Idle]

Init ==
    /\ cfg \in Configs
    /\ clock = 0
    /\ s3 = <<>>
    /\ incidents = 0
    /\ faulted = FALSE
    /\ calls = 0
    /\ last = NoCall
    /\ running = NoneRunning
    /\ probe = NoProbe

\* What stands under a key of the store.
Absent == [fmt |-> "absent", fields |-> EmptyObject]
Stored(store, key) == IF key \in DOMAIN store THEN store[key] ELSE Absent

\* The record of a call kept in `last`.
CallRecord(input, now, env, store, call) ==
    [called |-> TRUE,
     input |-> input,
     now |-> now,
     get_fails |-> env.get_fails,
     put_fault |-> env.put_fault,
     metrics_fails |-> env.metrics_fails,
     logs_fails |-> env.logs_fails,
     incident_key |-> call.incident_key,
     stored_before |-> Stored(store, index_key(call.incident_key)),
     stored_after |-> Stored(call.out.s3, index_key(call.incident_key)),
     index_data |-> call.index_data,
     gets |-> call.gets,
     path |-> call.out.path,
     raised |-> call.out.raised,
     result |-> call.out.result,
     metrics_calls |-> call.out.metrics_calls,
     log_calls |-> call.out.log_calls,
     notifier_call |-> call.out.notifier_call,
     notifier_target |-> call.out.notifier_target,
     notifier_ok |-> call.out.notifier_ok,
     puts |-> call.out.puts,
     puts_ok |-> call.out.puts_ok,
     events |-> CallEvents(call)]

\* One investigate call, from its first line to its return or raise, the
\* clock having moved by one of `steps` since the call before.
InvestigateAfter(steps) ==
    /\ calls < MaxCalls
    /\ \E step \in steps, input \in Inputs, notify_ok \in BOOLEAN,
          fault \in (IF faulted THEN {NoFault} ELSE Faults) :
        /\ clock + step \in 0..MaxTicks
        /\ \E suffix \in RunSuffixes(s3,
                            build_incident_key(input.stage, input.window_minutes,
                                               ReasonNorm[input.reason],
                                               clock + step, cfg.bucket_seconds),
                            clock + step) :
           \E call \in {investigate(s3, cfg, clock + step, input,
                            [get_fails |-> fault.get_fails,
                             put_fault |-> fault.put_fault,
                             notify_ok |-> notify_ok,
                             metrics |-> fault.metrics,
                             logs |-> fault.logs,
                             suffix |-> suffix,
                             created |-> [incident_id |-> incidents + 1,
                                          incident_url |-> <<"url", incidents + 1>>]])} :
            /\ s3' = call.out.s3
            /\ incidents' = IF call.out.notifier_call = "create" /\ call.out.notifier_ok
                            THEN incidents + 1 ELSE incidents
            /\ last' = CallRecord(input, clock + step,
                                  [get_fails |-> fault.get_fails,
                                   put_fault |-> fault.put_fault,
                                   metrics_fails |-> ~fault.metrics.ok,
                                   logs_fails |-> ~fault.logs.ok],
                                  s3, call)
        /\ clock' = clock + step
        /\ faulted' = (faulted \/ fault # NoFault)
    /\ calls' = calls + 1
    /\ UNCHANGED <<cfg, probe, running>>

Investigate == InvestigateAfter(ClockSteps)

\* An index object is damaged outside the engine: its bytes are no longer
\* JSON, it is JSON of another type, it is {}, or it has lost its
\* updated_at or its statuspage.last_update_at.
CorruptIndex ==
    /\ ~faulted
    /\ calls < MaxCalls
    /\ \E key \in DOMAIN s3 :
        /\ key[1] = "index"
        /\ s3[key].fmt = "object"
        /\ \E body \in {InvalidBody, NonObjectBody, JsonBody(EmptyObject),
                        JsonBody([s3[key].fields EXCEPT !.updated_at = BadIso]),
                        JsonBody([s3[key].fields EXCEPT
                                    !.statuspage.last_update_at = BadIso])} :
            /\ body # s3[key]
            /\ s3' = [s3 EXCEPT ![key] = body]
    /\ faulted' = TRUE
    /\ UNCHANGED <<cfg, clock, incidents, calls, last, probe, running>>

Next == Investigate \/ CorruptIndex

Spec == Init /\ [][Next]_vars

(***************************************************************************)
(* Calls one after the other under a clock that never steps back, the     *)
(* index written by investigate alone                                      *)
(***************************************************************************)
\* A TTL longer than the bucket, and a minimum update interval equal to the
\* bucket size.
LongTtlTimings ==
    [ttl_seconds |-> 4, bucket_seconds |-> 2, status_update_min_seconds |-> 2]

\* Configurations whose minimum update interval is at least the bucket
\* size, as with the defaults 600 and 300.
OrderlyConfigs ==
    {Config(t, strict, TRUE, TRUE) :
        t \in {DefaultTimings, LongTtlTimings}, strict \in BOOLEAN}

ForwardSteps == {step \in ClockSteps : step >= 0}

OrderlyInit ==
    /\ cfg \in OrderlyConfigs
    /\ clock = 0
    /\ s3 = <<>>
    /\ incidents = 0
    /\ faulted = FALSE
    /\ calls = 0
    /\ last = NoCall
    /\ running = NoneRunning
    /\ probe = NoProbe

InvestigateInOrder == InvestigateAfter(ForwardSteps)

OrderlySpec == OrderlyInit /\ [][InvestigateInOrder]_vars

(***************************************************************************)
(* Calls that overlap: each thread runs investigate statement by           *)
(* statement, the object store and the status page being shared            *)
(***************************************************************************)
\* The investigate calls started in one run.
MaxRaceCalls == 3

\* How far the clock has moved when the next call starts.
RaceSteps == {0, 2}

\* Soft mode, with a minimum update interval short enough for a dedupe
\* hit to post an update.
RaceConfigs == {Config(ShortTimings, FALSE, TRUE, TRUE)}

RaceInit ==
    /\ cfg \in RaceConfigs
    /\ clock = 0
    /\ s3 = <<>>
    /\ incidents = 0
    /\ faulted = FALSE
    /\ calls = 0
    /\ last = NoCall
    /\ probe = NoProbe
    /\ running = NoneRunning

\* Lines 103-122: a thread enters investigate, takes the time and derives
\* the incident key.  The random part of its run id is its own.  The
\* threads being alike, the first call of a run is made by thread 1.
Begin(p) ==
    /\ calls < MaxRaceCalls
    /\ running[p].pc \in {"idle", "done"}
    /\ calls = 0 => p = 1
    /\ \E step \in RaceSteps, input \in Inputs :
        /\ clock + step \in 0..MaxTicks
        /\ clock' = clock + step
        /\ running' =
              [running EXCEPT ![p] =
                 [pc |-> "read",
                  input |-> input,
                  now |-> clock + step,
                  suffix |-> calls,
                  incident_key |->
                      build_incident_key(input.stage, input.window_minutes,
                                         ReasonNorm[input.reason], clock + step,
                                         cfg.bucket_seconds),
                  index_data |-> NoneData,
                  path |-> "",
                  notifier_call |-> "none",
                  notifier_ok |-> FALSE,
                  created |-> NoIncidentId,
                  raised |-> "none",
                  pending |-> <<>>]]
    /\ calls' = calls + 1
    /\ UNCHANGED <<cfg, s3, incidents, faulted, last, probe>>

\* Lines 123-126: the index read and the choice of the branch.
ReadIndex(p) ==
    /\ running[p].pc = "read"
    /\ \E index_data \in {read_s3_json(s3, index_key(running[p].incident_key),
                                        cfg.storage_configured, FALSE)} :
          running' =
              [running EXCEPT
                 ![p].pc = "notify",
                 ![p].index_data = index_data,
                 ![p].path = IF TakesDedupePath(index_data, running[p].input.force,
                                                running[p].now, cfg.ttl_seconds)
                             THEN "dedupe" ELSE "fresh"]
    /\ UNCHANGED <<cfg, clock, s3, incidents, faulted, calls, last, probe>>

\* Lines 127-141 or 165-238: everything from the branch to the first put,
\* the notifier call included.  What the branch computes depends on the
\* store through index_data alone, so its puts are those it makes on an
\* empty store; they are kept, in order, to be made one at a time.
Notify(p) ==
    /\ running[p].pc = "notify"
    /\ \E notify_ok \in BOOLEAN :
       \E env \in {[get_fails |-> FALSE, put_fault |-> "none",
                     notify_ok |-> notify_ok, metrics |-> MetricsSample,
                     logs |-> LogSample, suffix |-> running[p].suffix,
                     created |-> [incident_id |-> incidents + 1,
                                  incident_url |-> <<"url", incidents + 1>>]]} :
       \E out \in {IF running[p].path = "dedupe"
                    THEN DedupePath(<<>>, cfg, running[p].now, running[p].incident_key,
                                    running[p].index_data, env)
                    ELSE FreshPath(<<>>, cfg, running[p].now, running[p].input,
                                   ReasonSafe[running[p].input.reason],
                                   running[p].incident_key, running[p].index_data,
                                   env)} :
          /\ incidents' = IF out.notifier_call = "create" /\ out.notifier_ok
                          THEN incidents + 1 ELSE incidents
          /\ running' =
                [running EXCEPT
                   ![p].pc = IF out.puts = <<>> THEN "done" ELSE "write",
                   ![p].notifier_call = out.notifier_call,
                   ![p].notifier_ok = out.notifier_ok,
                   ![p].created = IF out.notifier_call = "create" /\ out.notifier_ok
                                  THEN incidents + 1 ELSE NoIncidentId,
                   ![p].raised = out.raised,
                   ![p].pending = [i \in 1..Len(out.puts) |->
                                     [key |-> out.puts[i],
                                      body |-> out.s3[out.puts[i]]]]]
    /\ UNCHANGED <<cfg, clock, s3, faulted, calls, last, probe>>

\* Lines 142, 294-302 and 239: the next put_object of the call.
Put(p) ==
    /\ running[p].pc = "write"
    /\ s3' = PutObject(s3, Head(running[p].pending).key, Head(running[p].pending).body)
    /\ running' =
          [running EXCEPT
             ![p].pending = Tail(@),
             ![p].pc = IF Len(running[p].pending) = 1 THEN "done" ELSE "write"]
    /\ UNCHANGED <<cfg, clock, incidents, faulted, calls, last, probe>>

RaceNext == \E p \in Procs : Begin(p) \/ ReadIndex(p) \/ Notify(p) \/ Put(p)

RaceSpec == RaceInit /\ [][RaceNext]_vars

(***************************************************************************)
(* The pure functions on their own: reason normalizers and incident key    *)
(***************************************************************************)
\* The longest tail of a probe reason.
MaxTailLen == 2

\* A lowercase letter, an uppercase letter, whitespace and a character
\* outside the storage character set.
TailChars == {"b", "B", " ", "="}

RECURSIVE SeqsUpTo(_, _)
SeqsUpTo(chars, n) ==
    IF n = 0 THEN {<<>>}
    ELSE LET shorter == SeqsUpTo(chars, n - 1)
         IN  shorter \cup {Append(t, c) : t \in shorter, c \in chars}

Tails == SeqsUpTo(TailChars, MaxTailLen) \ {<<>>}

\* n times "a".
Pad(n) == [i \in 1..n |-> "a"]

\* Reasons that end well inside the cap, and reasons whose tail straddles
\* the cap position.
ProbeReasons == {Pad(n) \o t : n \in {0, ReasonCap - 1}, t \in Tails}

\* x with the character at one position of its tail replaced.
OneCharChanges(x) ==
    {[x EXCEPT ![i] = c] : i \in {j \in 1..Len(x) : j > Len(x) - MaxTailLen},
                           c \in TailChars} \ {x}

\* Times in the first bucket and in later ones.
ProbeTimes == {0, 3, 6}

ProbeInit ==
    /\ cfg \in {Config(DefaultTimings, FALSE, TRUE, TRUE),
                 Config(ShortTimings, FALSE, TRUE, TRUE)}
    /\ clock = 0
    /\ s3 = <<>>
    /\ incidents = 0
    /\ faulted = FALSE
    /\ calls = 0
    /\ last = NoCall
    /\ running = NoneRunning
    /\ \E x \in ProbeReasons, t \in ProbeTimes, u \in ProbeTimes :
          \E y \in OneCharChanges(x) \cup {x} :
             /\ t <= u
             /\ probe = [applied |-> FALSE, x |-> x, y |-> y, t |-> t, u |-> u]

\* What investigate computes from its arguments before it touches the
\* store (lines 104-122), for (x, t) and for (y, u), and the normalizers
\* applied to their own output.
ProbeResult(p, bucket_seconds) ==
    [applied |-> TRUE, x |-> p.x, y |-> p.y, t |-> p.t, u |-> p.u,
     norm_x |-> normalize_reason_for_key(p.x),
     norm_y |-> normalize_reason_for_key(p.y),
     norm_norm_x |-> normalize_reason_for_key(normalize_reason_for_key(p.x)),
     safe_x |-> sanitize_reason_for_storage(p.x),
     safe_safe_x |-> sanitize_reason_for_storage(sanitize_reason_for_storage(p.x)),
     key_x |-> build_incident_key("prod", 30, normalize_reason_for_key(p.x),
                                  p.t, bucket_seconds),
     key_y |-> build_incident_key("prod", 30, normalize_reason_for_key(p.y),
                                  p.u, bucket_seconds)]

ApplyPure ==
    /\ ~probe.applied
    /\ probe' = ProbeResult(probe, cfg.bucket_seconds)
    /\ UNCHANGED <<cfg, clock, s3, incidents, faulted, calls, last, running>>

PureSpec == ProbeInit /\ [][ApplyPure]_vars

(***************************************************************************)
(* POST /ops/investigate                                                   *)
(***************************************************************************)
\* The longest ops key and header value.
MaxKeyLen == 2

\* "e-acute" stands for the one character U+00E9, a character outside ASCII
\* (header bytes are decoded as latin-1).
NonAsciiChars == {"e-acute"}

KeyChars == {"k", "x", " "} \cup NonAsciiChars

KeyTexts == SeqsUpTo(KeyChars, MaxKeyLen)

\* An environment variable or a request header that is absent.
Unset == [present |-> FALSE, value |-> <<>>]

Given(value) == [present |-> TRUE, value |-> value]

\* os.getenv(name, "") and request.headers.get(name, "")
GetOrEmpty(entry) == IF entry.present THEN entry.value ELSE <<>>

\* require_ops_key: the exception it raises, "none" if it returns.
\* hmac.compare_digest raises TypeError when either str argument holds a
\* character outside ASCII.
require_ops_key(ops_key, header) ==
    LET expected == Strip(GetOrEmpty(ops_key))
        provided == GetOrEmpty(header)
    IN  IF expected = <<>> \/ provided = <<>> THEN "UnauthorizedError"
        ELSE IF \E i \in 1..Len(provided) : provided[i] \in NonAsciiChars
        THEN "TypeError"
        ELSE IF \E i \in 1..Len(expected) : expected[i] \in NonAsciiChars
        THEN "TypeError"
        ELSE IF provided # expected THEN "UnauthorizedError"
        ELSE "none"

\* install_exception_handlers: the status and the code of the error response
\* for an exception.
error_response(exc) ==
    CASE exc = "UnauthorizedError" -> [status |-> 401, code |-> "UNAUTHORIZED"]
      [] exc = "RequestValidationError" ->
            [status |-> 422, code |-> "REQUEST_VALIDATION_FAILED"]
      [] OTHER -> [status |-> 500, code |-> "INTERNAL_ERROR"]

\* The route: the require_ops_key dependency, then the body validated
\* against OpsInvestigateRequest (which has no field `force` and forbids
\* extra fields), then investigate_ops, which reads payload.force while
\* building the arguments of ops_service.investigate.
investigate_ops(ops_key, header, body_has_force) ==
    LET auth == require_ops_key(ops_key, header)
        exc == IF auth # "none" THEN auth
               ELSE IF body_has_force THEN "RequestValidationError"
               ELSE "AttributeError"
    IN  [status |-> error_response(exc).status,
         code |-> error_response(exc).code,
         auth |-> auth,
         engine_invoked |-> FALSE]

EndpointInit ==
    /\ cfg \in {Config(DefaultTimings, FALSE, TRUE, TRUE)}
    /\ clock = 0
    /\ s3 = <<>>
    /\ incidents = 0
    /\ faulted = FALSE
    /\ calls = 0
    /\ last = NoCall
    /\ running = NoneRunning
    /\ \E ops_key \in {Unset} \cup {Given(k) : k \in KeyTexts},
          header \in {Unset} \cup {Given(h) : h \in KeyTexts},
          body_has_force \in BOOLEAN :
          probe = [applied |-> FALSE, ops_key |-> ops_key, header |-> header,
                   body_has_force |-> body_has_force]

\* One request to POST /ops/investigate, from the dependency to the response.
PostInvestigate ==
    /\ ~probe.applied
    /\ \E response \in {investigate_ops(probe.ops_key, probe.header,
                                         probe.body_has_force)} :
          probe' = [applied |-> TRUE, ops_key |-> probe.ops_key,
                    header |-> probe.header,
                    body_has_force |-> probe.body_has_force,
                    response |-> response]
    /\ UNCHANGED <<cfg, clock, s3, incidents, faulted, calls, last, running>>

EndpointSpec == EndpointInit /\ [][PostInvestigate]_vars

(***************************************************************************)
(* Properties                                                              *)
(***************************************************************************)
\* C1: a non-forced call that reads, under its incident key, an index
\* record whose updated_at satisfies 0 <= now - updated_at < TTL takes the
\* dedupe-hit path: it makes no metrics query and no log query and writes
\* no report, and what it returns is deduped=true with the stored summary
\* and the JSON key of the stored latest report.
C1_DedupeHit ==
    (/\ last.called
     /\ ~last.input.force
     /\ last.index_data.fields.updated_at.valid
     /\ last.now - last.index_data.fields.updated_at.ticks >= 0
     /\ last.now - last.index_data.fields.updated_at.ticks
            < cfg.ttl_seconds * TicksPerSecond)
    => /\ last.path = "dedupe"
       /\ last.metrics_calls = 0
       /\ last.log_calls = 0
       /\ \A i \in 1..Len(last.puts) : last.puts[i] = index_key(last.incident_key)
       /\ last.raised = "none" =>
            /\ last.result.deduped
            /\ last.result.summary = last.index_data.fields.summary
            /\ last.result.report_s3_key
                  = ReportJsonKey(last.index_data.fields.latest_report_prefix)

C1_Witness ==
    /\ last.called
    /\ ~last.input.force
    /\ last.index_data.fields.updated_at.valid
    /\ last.now - last.index_data.fields.updated_at.ticks >= 0
    /\ last.now - last.index_data.fields.updated_at.ticks
           < cfg.ttl_seconds * TicksPerSecond
    /\ last.raised = "none"
    /\ last.result.deduped
    /\ last.result.report_s3_key \in DOMAIN s3

\* C2: a non-forced call is a dedupe hit exactly when the record it reads
\* has a parsable updated_at with 0 <= now - updated_at < TTL; with an
\* updated_at later than now, an age of TTL or more, or no parsable
\* updated_at, it takes the fresh path and collects.
C2_HitExactlyWithinTtl ==
    (last.called /\ ~last.input.force)
    => LET ts == last.index_data.fields.updated_at
           within == /\ ts.valid
                     /\ last.now - ts.ticks >= 0
                     /\ last.now - ts.ticks < cfg.ttl_seconds * TicksPerSecond
       IN  IF within THEN last.path = "dedupe"
           ELSE last.path = "fresh" /\ last.metrics_calls = 1

\* C3 as stated: a forced call never takes the dedupe-hit path, makes one
\* metrics query and one log query, and what it returns is deduped=false
\* with a new report and the index persisted.
C3_ForceAlwaysQueriesLogs ==
    (last.called /\ last.input.force)
    => /\ last.path = "fresh"
       /\ last.metrics_calls = 1
       /\ last.log_calls = 1
       /\ last.raised = "none" =>
            /\ ~last.result.deduped
            /\ last.result.report_s3_key \in DOMAIN s3
            /\ last.stored_after.fmt = "object"
            /\ last.stored_after.fields.updated_at = iso_utc(last.now)

\* C3 amended: a forced call never takes the dedupe-hit path, whatever the
\* index holds; it makes one metrics query, and one log query when a log
\* group is configured or derivable (none otherwise); what it returns is
\* deduped=false, with the report it names and the index record of this
\* run persisted.
C3_ForceBypassesDedupe ==
    (last.called /\ last.input.force)
    => /\ last.path = "fresh"
       /\ last.metrics_calls = 1
       /\ last.log_calls = (IF cfg.log_group THEN 1 ELSE 0)
       /\ last.raised = "none" =>
            /\ ~last.result.deduped
            /\ last.result.report_s3_key \in DOMAIN s3
            /\ last.stored_after.fmt = "object"
            /\ last.stored_after.fields.updated_at = iso_utc(last.now)
            /\ ReportJsonKey(last.stored_after.fields.latest_report_prefix)
                  = last.result.report_s3_key

\* A forced call on a record that is within its TTL.
C3_Witness ==
    /\ last.called
    /\ last.input.force
    /\ is_dedupe_hit(last.index_data, last.now, cfg.ttl_seconds)
    /\ last.raised = "none"
    /\ ~last.result.deduped
    /\ last.log_calls = 1

\* C4: on the fresh path the notifier call is chosen from the index record
\* as read: create_incident when it records no incident_id, otherwise
\* post_update on the recorded incident, and then the URL returned and the
\* incident_id and URL stored in the index are the recorded ones.
C4_IncidentReuse ==
    (last.called /\ last.path = "fresh")
    => LET recorded == last.index_data.fields.statuspage
       IN  IF recorded.incident_id = NoIncidentId
           THEN last.notifier_call = "create"
           ELSE /\ last.notifier_call = "update"
                /\ last.notifier_target = recorded.incident_id
                /\ last.raised = "none" =>
                     /\ last.result.statuspage_incident_url = recorded.incident_url
                     /\ last.stored_after.fields.statuspage.incident_id
                           = recorded.incident_id
                     /\ last.stored_after.fields.statuspage.incident_url
                           = recorded.incident_url

\* A fresh run that reuses the incident recorded by an earlier run.
C4_Witness ==
    /\ last.called
    /\ last.path = "fresh"
    /\ last.index_data.fields.statuspage.incident_id # NoIncidentId
    /\ last.notifier_call = "update"
    /\ last.raised = "none"
    /\ last.stored_after.fields.statuspage.incident_id = last.notifier_target

\* C5: on a dedupe hit whose record has an incident_id, post_update is
\* called once when last_update_at is absent or unparsable or at least
\* status_update_min_seconds before now, and then, the update and the
\* index write succeeding, the stored last_update_at is now; with a more
\* recent last_update_at, or without an incident_id, the notifier is not
\* called; create_incident is never called on a dedupe hit.
C5_DedupeUpdateThrottle ==
    (last.called /\ last.path = "dedupe")
    => LET recorded == last.index_data.fields.statuspage
           lu == recorded.last_update_at
           due == \/ ~lu.valid
                  \/ last.now - lu.ticks
                        >= cfg.status_update_min_seconds * TicksPerSecond
       IN  /\ last.notifier_call # "create"
           /\ IF recorded.incident_id # NoIncidentId /\ due
              THEN /\ last.notifier_call = "update"
                   /\ last.notifier_target = recorded.incident_id
                   /\ (last.notifier_ok /\ last.puts_ok = 1) =>
                         last.stored_after.fields.statuspage.last_update_at
                            = iso_utc(last.now)
              ELSE last.notifier_call = "none"

\* A dedupe hit that posted its update and stored the new last_update_at.
C5_Witness ==
    /\ last.called
    /\ last.path = "dedupe"
    /\ last.notifier_call = "update"
    /\ last.notifier_ok
    /\ last.puts_ok = 1
    /\ last.stored_after.fields.statuspage.last_update_at = iso_utc(last.now)
    /\ last.index_data.fields.statuspage.last_update_at.valid

\* A dedupe hit on a record whose last_update_at is lost.
C5_WitnessLostTimestamp ==
    /\ last.called
    /\ last.path = "dedupe"
    /\ last.index_data.fields.statuspage.incident_id # NoIncidentId
    /\ ~last.index_data.fields.statuspage.last_update_at.valid
    /\ last.notifier_call = "update"

\* C6: when the notifier call fails (and storage does not), with strict
\* mode off the call returns with statuspage_posted=false and the fixed
\* non-empty statuspage_error, and on the fresh path the report and the
\* index record are persisted; with strict mode on the call raises
\* OpsNotifyFailedError.  Both hold on the dedupe-hit and the fresh path.
C6_NotifyFailureSoftStrict ==
    (/\ last.called
     /\ last.notifier_call # "none"
     /\ ~last.notifier_ok
     /\ cfg.storage_configured
     /\ last.puts_ok = Len(last.puts))
    => IF cfg.statuspage_strict
       THEN last.raised = "OpsNotifyFailedError" /\ ~last.result.returned
       ELSE /\ last.raised = "none"
            /\ last.result.returned
            /\ ~last.result.statuspage_posted
            /\ last.result.statuspage_error = NotifyErrorText
            /\ last.result.statuspage_error # NoneText
            /\ last.path = "fresh" =>
                 /\ last.result.report_s3_key \in DOMAIN s3
                 /\ ReportMdKey(last.stored_after.fields.latest_report_prefix)
                       \in DOMAIN s3
                 /\ last.stored_after.fields.updated_at = iso_utc(last.now)
                 /\ ReportJsonKey(last.stored_after.fields.latest_report_prefix)
                       = last.result.report_s3_key

\* A soft-mode fresh run whose notifier call failed and whose report and
\* index were persisted.
C6_Witness ==
    /\ last.called
    /\ last.path = "fresh"
    /\ ~last.notifier_ok
    /\ ~cfg.statuspage_strict
    /\ last.raised = "none"
    /\ last.result.statuspage_error = NotifyErrorText
    /\ last.puts_ok = Len(last.puts)
    /\ last.result.report_s3_key \in DOMAIN s3

\* A strict-mode dedupe hit whose post_update failed.
C6_WitnessStrictDedupe ==
    /\ last.called
    /\ last.path = "dedupe"
    /\ last.notifier_call = "update"
    /\ ~last.notifier_ok
    /\ cfg.statuspage_strict
    /\ last.raised = "OpsNotifyFailedError"

\* A soft-mode dedupe hit whose post_update failed.
C6_WitnessSoftDedupe ==
    /\ last.called
    /\ last.path = "dedupe"
    /\ last.notifier_call = "update"
    /\ ~last.notifier_ok
    /\ ~cfg.statuspage_strict
    /\ last.raised = "none"
    /\ ~last.result.statuspage_posted

\* C7: no secret-looking token of the reason, whatever its letter case and
\* characters, is found verbatim in the reason that a completed run has
\* persisted in its report and in the index record.
C7_NoReasonTokenPersisted ==
    (last.called /\ last.path = "fresh" /\ last.raised = "none")
    => LET tokens == {<<"K","E","Y">>, <<"s","k","-","9","x">>}
           report == s3[last.result.report_s3_key].fields
       IN  \A t \in tokens :
              Contains(last.input.reason, t) =>
                 /\ ~Contains(report.reason, t)
                 /\ ~Contains(last.stored_after.fields.reason, t)

\* C8: every string of outside origin in a persisted report (the trigger
\* reason, the caller's request_id, the error codes and request ids taken
\* from log events into signals and summary) and in a persisted index
\* record is the output of the storage sanitizer, hence unchanged by it.
C8_PersistedStringsSanitized ==
    (last.called /\ last.path = "fresh" /\ last.raised = "none")
    => LET report == s3[last.result.report_s3_key].fields
           index == last.stored_after.fields
           texts ==
              {report.reason, report.request_id, index.reason}
                 \cup {c.code : c \in SeqMembers(report.signals.error_code_aggregation)}
                 \cup SeqMembers(report.signals.sample_request_ids)
                 \cup {c.code : c \in SeqMembers(report.summary.top_error_codes)}
                 \cup SeqMembers(report.summary.sample_request_ids)
                 \cup {c.code : c \in SeqMembers(index.summary.top_error_codes)}
                 \cup SeqMembers(index.summary.sample_request_ids)
       IN  \A x \in texts : sanitize_reason_for_storage(x) = x

\* C9: a call whose index object cannot be read, is not JSON, is not a
\* JSON object or is a JSON object without a parsable updated_at behaves
\* as with an absent index: it takes the fresh path and its notifier call
\* is create_incident.
C9_MalformedIndexAsAbsent ==
    (/\ last.called
     /\ \/ last.get_fails /\ last.stored_before.fmt # "absent"
        \/ last.stored_before.fmt \in {"invalid", "nonobject"}
        \/ /\ last.stored_before.fmt = "object"
           /\ ~last.stored_before.fields.updated_at.valid)
    => /\ last.path = "fresh"
       /\ last.notifier_call = "create"

\* C10: a call one of whose puts failed raises, and raises a storage
\* failure, on either path and in either mode.
C10_FailedPutRaises ==
    (last.called /\ last.puts_ok < Len(last.puts))
    => /\ last.raised = "StorageError"
       /\ ~last.result.returned

\* C11: with no bucket configured a call fails with the configuration error
\* and has done no partial work: no metrics query, no log query and no
\* notifier call precede the failure.
C11_UnconfiguredStorageNoPartialWork ==
    (last.called /\ ~cfg.storage_configured)
    => /\ last.raised = "RuntimeError"
       /\ last.metrics_calls = 0
       /\ last.log_calls = 0
       /\ last.notifier_call = "none"

\* C12: a non-forced call with the stage, window and reason of the fresh
\* call before it, which persisted its index record, arriving less than
\* the dedupe TTL after that call and reading the store as that call left
\* it, is a dedupe hit: it takes the dedupe path and opens no new external
\* incident, whichever time bucket it arrives in.
C12_RepeatWithinTtlDeduped ==
    [][(/\ last.called
        /\ last.path = "fresh"
        /\ last.raised = "none"
        /\ calls' = calls + 1
        /\ Stored(s3, index_key(last.incident_key)) = last.stored_after
        /\ ~last'.input.force
        /\ ~last'.get_fails
        /\ last'.input.stage = last.input.stage
        /\ last'.input.window_minutes = last.input.window_minutes
        /\ last'.input.reason = last.input.reason
        /\ last'.now >= last.now
        /\ last'.now - last.now < cfg.ttl_seconds * TicksPerSecond)
       => /\ last'.path = "dedupe"
          /\ last'.notifier_call # "create"
          /\ incidents' = incidents]_vars

\* C13: when a call has notified an external incident (created it or
\* posted an update) and the next call, not earlier on the clock, posts
\* an update to the same incident, the two are at least
\* status_update_min_seconds apart, whichever path posts the update.
C13_UpdatesSpaced ==
    [][(/\ last.called
        /\ last.notifier_call # "none"
        /\ last.notifier_ok
        /\ calls' = calls + 1
        /\ last'.notifier_call = "update"
        /\ last'.notifier_ok
        /\ last'.notifier_target
             = (IF last.notifier_call = "create" THEN incidents
                ELSE last.notifier_target)
        /\ last'.now >= last.now)
       => last'.now - last.now
            >= cfg.status_update_min_seconds * TicksPerSecond]_vars

\* C14: a report object is never overwritten: no put of a fresh run goes to
\* a report key that is already in the store.
C14_ReportsWriteOnce ==
    [][(calls' = calls + 1 /\ last'.path = "fresh")
       => \A i \in 1..Len(last'.puts) :
             last'.puts[i][1] \in {"report.json", "report.md"}
                => last'.puts[i] \notin DOMAIN s3]_vars

\* C15: when the index record stored for a key records no incident_id, no
\* create_incident call for that key has succeeded: a call whose
\* create_incident succeeded does not leave behind a record without an
\* incident_id.
C15_NoIncidentIdMeansNoneCreated ==
    (/\ last.called
     /\ last.notifier_call = "create"
     /\ last.notifier_ok)
    => ~(/\ last.stored_after.fmt = "object"
         /\ ~last.stored_after.fields.empty
         /\ last.stored_after.fields.statuspage.incident_id = NoIncidentId)

\* C16 as stated: one call makes at most one metrics query, at most one
\* log query, at most one notifier call, one or two object-store reads and
\* one or two object-store writes, on either path.
C16_OneOrTwoWrites ==
    last.called
    => /\ last.metrics_calls <= 1
       /\ last.log_calls <= 1
       /\ last.notifier_call \in {"none", "create", "update"}
       /\ last.gets \in {1, 2}
       /\ Len(last.puts) \in {1, 2}

\* C16 amended: one call makes at most one metrics query, at most one log
\* query, at most one notifier call and at most one object-store read
\* (exactly one when a bucket is configured); on the dedupe-hit path it
\* makes no collector query and at most one write, the index, and only
\* after a posted update; on the fresh path it makes at most three writes
\* (report.json, report.md, index), all three when it returns.
C16_CallBudget ==
    last.called
    => /\ last.metrics_calls <= 1
       /\ last.log_calls <= 1
       /\ last.notifier_call \in {"none", "create", "update"}
       /\ last.gets = (IF cfg.storage_configured THEN 1 ELSE 0)
       /\ IF last.path = "dedupe"
          THEN /\ last.metrics_calls = 0
               /\ last.log_calls = 0
               /\ Len(last.puts) = (IF last.notifier_ok THEN 1 ELSE 0)
               /\ \A i \in 1..Len(last.puts) :
                     last.puts[i] = index_key(last.incident_key)
          ELSE /\ Len(last.puts) <= 3
               /\ last.raised = "none" =>
                     /\ Len(last.puts) = 3
                     /\ last.puts_ok = 3
                     /\ last.puts[1][1] = "report.json"
                     /\ last.puts[2][1] = "report.md"
                     /\ last.puts[3] = index_key(last.incident_key)

\* A fresh run that returned after its three writes.
C16_Witness ==
    /\ last.called
    /\ last.path = "fresh"
    /\ last.raised = "none"
    /\ Len(last.puts) = 3
    /\ last.gets = 1
    /\ last.metrics_calls = 1
    /\ last.log_calls = 1
    /\ last.notifier_call # "none"

\* C17 as stated: equal stage, window and reason in the same bucket give
\* the same key; a reason changed in one character, or a time in another
\* bucket, gives a different key.
C17_AnyCharChangesKey ==
    probe.applied
    => LET same_bucket ==
              EpochSeconds(probe.t) \div cfg.bucket_seconds
                 = EpochSeconds(probe.u) \div cfg.bucket_seconds
       IN  /\ (probe.x = probe.y /\ same_bucket) => probe.key_x = probe.key_y
           /\ probe.x # probe.y => probe.key_x # probe.key_y
           /\ ~same_bucket => probe.key_x # probe.key_y

\* C17 amended: two calls with the same stage and window get the same key
\* exactly when their reasons have the same normal form (equal up to
\* letter case, surrounding and repeated whitespace, and anything past the
\* cap) and their times fall in the same bucket.
C17_KeyOfNormalFormAndBucket ==
    probe.applied
    => LET same_bucket ==
              EpochSeconds(probe.t) \div cfg.bucket_seconds
                 = EpochSeconds(probe.u) \div cfg.bucket_seconds
       IN  (probe.key_x = probe.key_y)
              <=> (probe.norm_x = probe.norm_y /\ same_bucket)

\* Two reasons that differ in one character and have different normal
\* forms, at two times of one bucket: the keys differ.
C17_Witness ==
    /\ probe.applied
    /\ probe.x # probe.y
    /\ probe.norm_x # probe.norm_y
    /\ probe.t # probe.u
    /\ EpochSeconds(probe.t) \div cfg.bucket_seconds
         = EpochSeconds(probe.u) \div cfg.bucket_seconds
    /\ probe.key_x # probe.key_y

\* Two reasons that differ in one character and get the same key.
C17_WitnessSameKey ==
    /\ probe.applied
    /\ probe.x # probe.y
    /\ probe.key_x = probe.key_y

\* C18: the key normalizer and the storage sanitizer are idempotent, also
\* on reasons longer than the cap and with whitespace at the cap position.
C18_NormalizersIdempotent ==
    probe.applied
    => /\ probe.norm_norm_x = probe.norm_x
       /\ probe.safe_safe_x = probe.safe_x

\* C19: a metrics query or a log query that fails, in a call that runs the
\* collectors and meets no storage fault, does not make the call fail and
\* leaves no error field: the call makes its notifier call, raises only the
\* strict-mode notifier error if at all, and otherwise returns on the fresh
\* path with the report and the index record persisted; the report holds
\* the all-zero snapshot with null percentiles after a metrics failure and
\* the signals gathered before the failure (none, the query itself having
\* failed) after a log failure.
C19_CollectorFailureContained ==
    (/\ last.called
     /\ last.path = "fresh"
     /\ cfg.storage_configured
     /\ last.metrics_fails \/ (last.logs_fails /\ cfg.log_group))
    => /\ last.metrics_calls = 1
       /\ last.log_calls = (IF cfg.log_group THEN 1 ELSE 0)
       /\ last.notifier_call # "none"
       /\ last.raised # "none" =>
            /\ last.raised = "OpsNotifyFailedError"
            /\ cfg.statuspage_strict
            /\ ~last.notifier_ok
       /\ last.raised = "none" =>
            /\ last.result.returned
            /\ ~last.result.deduped
            /\ last.result.statuspage_error = NoneText <=> last.notifier_ok
            /\ last.puts_ok = 3
            /\ last.result.report_s3_key \in DOMAIN s3
            /\ last.stored_after.fmt = "object"
            /\ last.stored_after.fields.updated_at = iso_utc(last.now)
            /\ ReportJsonKey(last.stored_after.fields.latest_report_prefix)
                  = last.result.report_s3_key
            /\ LET report == s3[last.result.report_s3_key].fields
               IN  /\ report.statuspage.error = NoneText <=> last.notifier_ok
                   /\ last.metrics_fails =>
                        /\ report.metrics.lambda =
                              [invocations |-> 0, errors |-> 0, throttles |-> 0,
                               duration_p95_ms |-> NoneInt]
                        /\ report.metrics.api_gateway =
                              [count |-> 0, c4xx |-> 0, c5xx |-> 0,
                               integration_latency_p95_ms |-> NoneInt]
                   /\ last.logs_fails =>
                        /\ report.signals.error_code_aggregation = <<>>
                        /\ report.signals.sample_request_ids = <<>>
                        /\ report.signals.token_counts.samples = 0

\* A fresh run whose metrics query failed and that returned with the zero
\* snapshot in its persisted report.
C19_WitnessMetrics ==
    /\ last.called
    /\ last.path = "fresh"
    /\ last.metrics_fails
    /\ last.raised = "none"
    /\ last.notifier_ok
    /\ last.puts_ok = 3
    /\ last.result.report_s3_key \in DOMAIN s3
    /\ s3[last.result.report_s3_key].fields.metrics.lambda.invocations = 0
    /\ s3[last.result.report_s3_key].fields.signals.sample_request_ids # <<>>

\* A fresh run whose log query failed and that returned with its report and
\* index record persisted, the metrics in the report being those queried.
C19_WitnessLogs ==
    /\ last.called
    /\ last.path = "fresh"
    /\ cfg.log_group
    /\ last.logs_fails
    /\ last.raised = "none"
    /\ last.puts_ok = 3
    /\ last.stored_after.fields.updated_at = iso_utc(last.now)
    /\ s3[last.result.report_s3_key].fields.signals.sample_request_ids = <<>>
    /\ s3[last.result.report_s3_key].fields.metrics.lambda.invocations > 0

\* C20: the endpoint invokes the engine only when the request carries an
\* ops-key header equal to the configured, non-empty ops key (the key being
\* read with surrounding whitespace removed); a missing header, a header
\* that differs from the key, or an unset or empty key yields a 401
\* response with code UNAUTHORIZED, and the engine is not invoked.
C20_OpsKeyGate ==
    probe.applied =>
        LET configured == Strip(GetOrEmpty(probe.ops_key))
            authorized == /\ probe.header.present
                          /\ configured # <<>>
                          /\ probe.header.value = configured
        IN  /\ probe.response.engine_invoked => authorized
            /\ ~authorized =>
                  /\ probe.response.status = 401
                  /\ probe.response.code = "UNAUTHORIZED"
                  /\ ~probe.response.engine_invoked

\* C26: in every result that investigate returns, on both paths and
\* whatever fails, statuspage_posted = true implies that statuspage_error is
\* absent, and a non-empty statuspage_error implies statuspage_posted =
\* false.
C26_PostedExcludesError ==
    (last.called /\ last.raised = "none" /\ last.result.returned)
    => /\ last.result.statuspage_posted => last.result.statuspage_error = NoneText
       /\ last.result.statuspage_error # NoneText => ~last.result.statuspage_posted

\* C30: a call that raises the notify-failure error in strict mode, on
\* either path, leaves the object store exactly as it was before the call.
C30_StrictRaiseLeavesStore ==
    [][(/\ calls' = calls + 1
        /\ cfg.statuspage_strict
        /\ last'.raised = "OpsNotifyFailedError")
       => s3' = s3]_vars

\* A strict-mode fresh call that raised after a failed notifier call, on a
\* store that already holds objects.
C30_WitnessFresh ==
    /\ last.called
    /\ cfg.statuspage_strict
    /\ last.path = "fresh"
    /\ last.raised = "OpsNotifyFailedError"
    /\ ~last.notifier_ok
    /\ last.puts = <<>>
    /\ last.stored_before.fmt = "object"
    /\ last.stored_after = last.stored_before

\* A strict-mode dedupe hit that raised after a failed post_update.
C30_WitnessDedupe ==
    /\ last.called
    /\ cfg.statuspage_strict
    /\ last.path = "dedupe"
    /\ last.raised = "OpsNotifyFailedError"
    /\ last.notifier_call = "update"
    /\ last.stored_after = last.stored_before

\* C29: a dedupe-hit call leaves the object store as it was, except that
\* after a posted update whose index put succeeds the index record of its
\* key has statuspage.last_update_at = now and last_state = investigating;
\* every other field of that record (updated_at, ttl_seconds, summary,
\* latest_report_prefix, incident_id, incident_url among them) and every
\* other object stays as it was, and no object is created.
C29_DedupeFrame ==
    [][(calls' = calls + 1 /\ last'.path = "dedupe")
       => LET ik == index_key(last'.incident_key)
          IN  /\ DOMAIN s3' = DOMAIN s3
              /\ \A k \in DOMAIN s3 : k # ik => s3'[k] = s3[k]
              /\ ik \in DOMAIN s3
              /\ IF last'.notifier_ok /\ last'.puts_ok = 1
                 THEN /\ s3'[ik].fmt = "object"
                      /\ s3'[ik].fields =
                           [s3[ik].fields EXCEPT
                               !.statuspage.last_update_at = iso_utc(last'.now),
                               !.statuspage.last_state = "investigating"]
                 ELSE s3'[ik] = s3[ik]]_vars

\* A dedupe hit that posted its update and rewrote the index record, whose
\* updated_at is older than the call.
C29_Witness ==
    /\ last.called
    /\ last.path = "dedupe"
    /\ last.notifier_call = "update"
    /\ last.notifier_ok
    /\ last.puts_ok = 1
    /\ last.stored_after # last.stored_before
    /\ last.stored_after.fields.statuspage.last_update_at = iso_utc(last.now)
    /\ last.stored_after.fields.updated_at # iso_utc(last.now)

\* C25: a fresh call whose create_incident failed in soft mode and that
\* returns has stored an index record with an empty incident_id and
\* updated_at = now; and a non-forced call that reads a record with an empty
\* incident_id whose updated_at is at most TTL old takes the dedupe path and
\* makes no notifier call, so the external incident is not opened for that
\* key until the record expires or force is used.
C25_NoCreateRetryWithinTtl ==
    /\ (/\ last.called
        /\ last.path = "fresh"
        /\ last.notifier_call = "create"
        /\ ~last.notifier_ok
        /\ last.raised = "none")
       => /\ ~cfg.statuspage_strict
          /\ last.stored_after.fmt = "object"
          /\ last.stored_after.fields.statuspage.incident_id = NoIncidentId
          /\ last.stored_after.fields.updated_at = iso_utc(last.now)
    /\ (/\ last.called
        /\ ~last.input.force
        /\ last.index_data.dict
        /\ ~last.index_data.fields.empty
        /\ last.index_data.fields.statuspage.incident_id = NoIncidentId
        /\ last.index_data.fields.updated_at.valid
        /\ last.now - last.index_data.fields.updated_at.ticks >= 0
        /\ last.now - last.index_data.fields.updated_at.ticks
              < cfg.ttl_seconds * TicksPerSecond)
       => /\ last.path = "dedupe"
          /\ last.notifier_call = "none"
          /\ last.raised = "none"
          /\ last.result.deduped
          /\ ~last.result.statuspage_posted
          /\ last.stored_after = last.stored_before

\* A dedupe hit on a record left by a fresh call whose create_incident had
\* failed: no incident has been opened and none is attempted.
C25_Witness ==
    /\ last.called
    /\ last.path = "dedupe"
    /\ ~last.input.force
    /\ ~last.index_data.fields.empty
    /\ last.index_data.fields.statuspage.incident_id = NoIncidentId
    /\ last.index_data.fields.latest_report_prefix # <<>>
    /\ last.notifier_call = "none"
    /\ incidents = 0

\* C27: as long as every object-store operation has succeeded and the index
\* has been written by investigate alone, an index record that holds a
\* non-empty incident_id keeps that incident_id and its incident_url in
\* every record written for its key afterwards, also when post_update
\* fails, and create_incident is not called again for that key.
C27_IncidentIdSticks ==
    [][(calls' = calls + 1 /\ ~faulted')
       => /\ \A k \in DOMAIN s3 :
               (/\ k[1] = "index"
                /\ s3[k].fmt = "object"
                /\ s3[k].fields.statuspage.incident_id # NoIncidentId)
               => /\ s3'[k].fmt = "object"
                  /\ s3'[k].fields.statuspage.incident_id
                        = s3[k].fields.statuspage.incident_id
                  /\ s3'[k].fields.statuspage.incident_url
                        = s3[k].fields.statuspage.incident_url
          /\ last'.notifier_call = "create"
               => \/ index_key(last'.incident_key) \notin DOMAIN s3
                  \/ s3[index_key(last'.incident_key)].fields.statuspage.incident_id
                        = NoIncidentId]_vars

\* A fresh call on a record with an incident_id whose post_update failed:
\* the record it wrote is a new one and still names the same incident.
C27_Witness ==
    /\ last.called
    /\ ~faulted
    /\ last.path = "fresh"
    /\ last.notifier_call = "update"
    /\ ~last.notifier_ok
    /\ last.raised = "none"
    /\ last.stored_before.fields.statuspage.incident_id # NoIncidentId
    /\ last.stored_after # last.stored_before
    /\ last.stored_after.fields.statuspage.incident_id
          = last.stored_before.fields.statuspage.incident_id
    /\ last.stored_after.fields.statuspage.incident_url
          = last.stored_before.fields.statuspage.incident_url

\* C22: after any sequence of calls, failed ones included, every index
\* record in the store that names a report prefix has both report.json and
\* report.md stored under that prefix, and the report location returned by
\* a fresh call is a key of the store.
C22_IndexPointsAtStoredReports ==
    /\ \A k \in DOMAIN s3 :
          (/\ k[1] = "index"
           /\ s3[k].fmt = "object"
           /\ s3[k].fields.latest_report_prefix # <<>>)
          => /\ <<"report.json", s3[k].fields.latest_report_prefix>> \in DOMAIN s3
             /\ <<"report.md", s3[k].fields.latest_report_prefix>> \in DOMAIN s3
    /\ (last.called /\ last.path = "fresh" /\ last.raised = "none")
          => /\ last.result.report_s3_key \in DOMAIN s3
             /\ last.result.report_s3_key[1] = "report.json"

\* A fresh call failed at its report.md or index put on top of an earlier
\* record: the reports it did write are in the store, and the index record
\* still names the earlier run, whose reports are there.
C22_Witness ==
    /\ last.called
    /\ last.path = "fresh"
    /\ last.raised = "StorageError"
    /\ last.puts_ok \in {1, 2}
    /\ last.stored_before.fmt = "object"
    /\ last.stored_after = last.stored_before
    /\ last.stored_after.fields.latest_report_prefix # <<>>
    /\ \E k \in DOMAIN s3 :
          /\ k[1] = "report.json"
          /\ k[2] # last.stored_after.fields.latest_report_prefix

\* C23: within one call the single index read comes first, before every
\* side effect, and no object-store read follows a write; on the fresh
\* path the calls made are, in this order, index read, metrics and log
\* collection, notifier call, report puts, index put, and on the dedupe
\* path index read, optional post_update, optional index put.
C23_ReadsBeforeWrites ==
    (last.called /\ cfg.storage_configured)
    => LET ev == last.events
           Rank(e) == CASE e = "get_index" -> 1
                        [] e = "metrics_query" -> 2
                        [] e = "log_query" -> 3
                        [] e \in {"create_incident", "post_update"} -> 4
                        [] e = "put_report_json" -> 5
                        [] e = "put_report_md" -> 6
                        [] e = "put_index" -> 7
                        [] OTHER -> 0
       IN  /\ Len(ev) >= 1
           /\ ev[1] = "get_index"
           /\ \A i \in 2..Len(ev) : ev[i] # "get_index"
           /\ \A i \in 1..Len(ev) : Rank(ev[i]) > 0
           /\ \A i \in 1..(Len(ev) - 1) : Rank(ev[i]) < Rank(ev[i + 1])
           /\ last.path = "fresh" =>
                /\ Len(ev) >= 3
                /\ ev[2] = "metrics_query"
                /\ cfg.log_group => Len(ev) >= 4 /\ ev[3] = "log_query"
                /\ \E i \in 3..4 : i <= Len(ev) /\ Rank(ev[i]) = 4
                /\ last.raised = "none" =>
                     SubSeq(ev, Len(ev) - 2, Len(ev))
                        = <<"put_report_json", "put_report_md", "put_index">>
           /\ last.path = "dedupe" =>
                ev \in {<<"get_index">>,
                        <<"get_index", "post_update">>,
                        <<"get_index", "post_update", "put_index">>}

\* A fresh call that made all seven calls, and returned.
C23_Witness ==
    /\ last.called
    /\ last.path = "fresh"
    /\ last.raised = "none"
    /\ last.events = <<"get_index", "metrics_query", "log_query", "create_incident",
                       "put_report_json", "put_report_md", "put_index">>

\* A dedupe hit that read the index, posted an update and put the index.
C23_WitnessDedupe ==
    /\ last.called
    /\ last.path = "dedupe"
    /\ last.events = <<"get_index", "post_update", "put_index">>

\* C24: when calls run one after the other, the clock never steps back,
\* the minimum update interval is at least the bucket size and only
\* investigate writes the index, no dedupe-hit call calls post_update:
\* every stored record that names an incident has its last_update_at in the
\* time bucket of its own key.
C24_NoDedupeUpdate ==
    /\ cfg.status_update_min_seconds >= cfg.bucket_seconds
    /\ (last.called /\ last.path = "dedupe")
          => /\ last.notifier_call = "none"
             /\ last.stored_after = last.stored_before
    /\ \A k \in DOMAIN s3 :
          (/\ k[1] = "index"
           /\ s3[k].fmt = "object"
           /\ s3[k].fields.statuspage.incident_id # NoIncidentId)
          => /\ s3[k].fields.statuspage.last_update_at.valid
             /\ (s3[k].fields.statuspage.last_update_at.ticks \div TicksPerSecond)
                    \div cfg.bucket_seconds = k[2][3]

\* A dedupe hit, later than the record it reads, on a record that names an
\* incident, where the minimum update interval equals the bucket size.
C24_Witness ==
    /\ last.called
    /\ last.path = "dedupe"
    /\ cfg.status_update_min_seconds = cfg.bucket_seconds
    /\ last.index_data.fields.statuspage.incident_id # NoIncidentId
    /\ last.now >= last.index_data.fields.updated_at.ticks + TicksPerSecond
    /\ last.notifier_call = "none"

\* C21: nothing in the engine keeps two overlapping calls on one incident
\* key apart.  The index put of a call stores that call's record whatever
\* the store holds by then; and when two calls on the same key have both
\* read the index as absent, both taken the fresh path and both created an
\* external incident, the two incidents differ and the index record of the
\* key names one of them, the other being named by no index record.
C21_RacingCreatesOneRecorded ==
    [][/\ \A p \in Procs :
            (/\ running[p].pc = "write"
             /\ running'[p] # running[p]
             /\ Head(running[p].pending).key[1] = "index")
            => /\ Head(running[p].pending).key \in DOMAIN s3'
               /\ s3'[Head(running[p].pending).key] = Head(running[p].pending).body
       /\ \A p \in Procs, q \in Procs :
            (/\ p # q
             /\ running'[p].pc = "done"
             /\ running'[q].pc = "done"
             /\ running'[p].incident_key = running'[q].incident_key
             /\ running'[p].path = "fresh"
             /\ running'[q].path = "fresh"
             /\ ~running'[p].index_data.dict
             /\ ~running'[q].index_data.dict
             /\ running'[p].created # NoIncidentId
             /\ running'[q].created # NoIncidentId)
            => LET ik == index_key(running'[p].incident_key)
                   recorded == {s3'[k].fields.statuspage.incident_id :
                                  k \in {i \in DOMAIN s3' : i[1] = "index"}}
               IN  /\ running'[p].created # running'[q].created
                   /\ ik \in DOMAIN s3'
                   /\ s3'[ik].fields.statuspage.incident_id
                         \in {running'[p].created, running'[q].created}
                   /\ ~({running'[p].created, running'[q].created} \subseteq recorded)
      ]_vars

\* Two calls on one key have both read the index as absent, both created
\* an incident and both finished: two incidents are open, and the index
\* record names the one created second, written over the record that
\* named the first.
C21_Witness ==
    /\ running[1].pc = "done"
    /\ running[2].pc = "done"
    /\ running[1].incident_key = running[2].incident_key
    /\ running[1].path = "fresh"
    /\ running[2].path = "fresh"
    /\ ~running[1].index_data.dict
    /\ ~running[2].index_data.dict
    /\ running[1].created = 1
    /\ running[2].created = 2
    /\ incidents = 2
    /\ s3[index_key(running[1].incident_key)].fields.statuspage.incident_id = 2
    /\ \A k \in DOMAIN s3 :
          k[1] = "index" => s3[k].fields.statuspage.incident_id # 1

\* C28: for each incident key the stored index record is never replaced
\* by an older one: across every step of every interleaving of concurrent
\* calls, its updated_at does not decrease and the run time in its
\* latest_report_prefix does not go back to that of an earlier run.
C28_IndexNeverOlder ==
    [][\A k \in DOMAIN s3 :
          k[1] = "index"
          => /\ k \in DOMAIN s3'
             /\ s3'[k].fields.updated_at.ticks >= s3[k].fields.updated_at.ticks
             /\ s3'[k].fields.latest_report_prefix[2][1]
                   >= s3[k].fields.latest_report_prefix[2][1]
      ]_vars

====
